---- MODULE Spec2Model ----
(***************************************************************************)
(* Model of the reactive cell of src/reactivity/src/lib.rs: ReactiveField  *)
(* with its three subscriber storages (Vec<mpsc::UnboundedSender<T>>,      *)
(* Vec<SubscriberOnce<T>>, Vec<UniversalSubscriber<T>>), the mutable       *)
(* access guard MutReactiveFieldGuard, and the receiving ends (streams and *)
(* one-shot futures) that callers hold.                                    *)
(*                                                                         *)
(* The stored type T is modelled by the integers 0..MaxVal (a bool cell is *)
(* the two values 0 and 1).  An assert_fn is modelled by its extension:    *)
(* the set of values for which it returns true.                            *)
(*                                                                         *)
(* The second part models the room of src/src/lib.rs (RoomHandle, Room,    *)
(* PeerConnection, Sender) with its RPC peer: the mocked client of the     *)
(* tests, src/server or src/demo-server.  Spec runs the cell with the room *)
(* left as built; RoomSpec runs the room with the cell left as built.      *)
(***************************************************************************)
EXTENDS Integers, Sequences, FiniteSets, TLC

\* ------------------------------------------------------------------ bounds
MaxVal == 4
MaxSubs == 2
MaxCommits == 3
MaxWrites == 2

Values == 0..MaxVal
Ids == 1..MaxSubs

\* The initial values the cell is constructed with: false/true of a bool
\* cell, 1 of the integer scenarios.
InitValues == {0, 1}

\* The three storage strategies: DefaultReactiveField, OnceReactiveField,
\* OnceAndManyReactiveField.
Strategies == {"Default", "Once", "Universal"}

\* when_eq(should_be): the closure |data| data == &should_be.
EqTo(should_be) == {v \in Values : v = should_be}

\* A predicate that is not an equality: |data| *data >= k.
AtLeast(k) == {v \in Values : v >= k}

\* The targets the model passes to when_eq().
Targets == {1, 2}

\* The assert_fn arguments the model passes to when(): the equalities of
\* when_eq and one predicate that several values satisfy.
Preds == {EqTo(t) : t \in Targets} \cup {AtLeast(2)}

VARIABLES
    strategy,   \* which storage S the cell was built with
    alive,      \* the ReactiveField has not been dropped
    panicked,   \* an unwrap() inside on_modify failed: the program is gone
    data,       \* ReactiveField::data
    subs,       \* ReactiveField::subs, a sequence of subscriber entries
    guard,      \* the MutReactiveFieldGuard (live, or the last one released)
    streams,    \* receiving ends of the mpsc channels handed out by subscribe()
    futs,       \* receiving ends of the oneshot channels handed out by when()
    commits,    \* history: the values on_modify was called with, in order
    nextId      \* next unused channel identity

cellVars == <<strategy, alive, panicked, data, subs, guard, streams, futs,
              commits, nextId>>

\* ---------------------------------------------------- room: bounds, state
\* The room of src/src/lib.rs (RoomHandle, Room, PeerConnection, Sender),
\* its RPC client and the two WebSocket servers.
MaxCalls == 2
MaxInputs == 2

CallIds == 1..MaxCalls

\* PeerConnection::new: one Video and one Audio track.
Kinds == {"Video", "Audio"}

\* RoomHandle::new_with_client inserts the single peer PeerId(100).
Peers == {"PeerId(100)"}

\* What stands behind the RPC client: the mock of the tests, the server
\* (reply after 3 s) or the demo-server (reply at once).
Rpcs == {"mock", "server", "demo-server"}

VARIABLES
    rpc,        \* which RPC peer this run has
    is_muted,   \* Sender::is_muted of each track (the cell's value)
    is_busy,    \* Sender::is_busy of each track
    waiters,    \* the when_eq entries held by each track's is_muted cell
    calls,      \* the inner_mute / inner_unmute calls: arguments and progress
    sent,       \* history: the commands handed to RpcClient::send
    wire,       \* commands on their way to the server
    events,     \* events on the on_message stream, not yet handled
    nhandled,   \* history: number of events Room::handle_event has handled
    ninputs,    \* number of inputs the environment has injected
    session,    \* the server's WsSession: "open", "closed" or "panicked"
    timers,     \* the server's pending run_later replies
    srv_recv,   \* history: MuteRoom commands the server has received
    srv_sent    \* history: events the server has sent

roomVars == <<rpc, is_muted, is_busy, waiters, calls, sent, wire, events,
              nhandled, ninputs, session, timers, srv_recv, srv_sent>>

vars == <<cellVars, roomVars>>

\* A call that has not been made.
NoCall == [op |-> "none", audio |-> FALSE, video |-> FALSE, st |-> "none",
           waits |-> {}, registered |-> {}]

\* Command::MuteRoom / Command::UnmuteRoom, Event::RoomMuted / RoomUnmuted.
MuteRoom(audio, video) == [cmd |-> "MuteRoom", video |-> video, audio |-> audio]

UnmuteRoom(audio, video) == [cmd |-> "UnmuteRoom", video |-> video, audio |-> audio]

RoomMuted(audio, video) == [event |-> "RoomMuted", video |-> video, audio |-> audio]

RoomUnmuted(audio, video) == [event |-> "RoomUnmuted", video |-> video, audio |-> audio]

EventsOfProto == {RoomMuted(a, v) : a, v \in BOOLEAN}
                    \cup {RoomUnmuted(a, v) : a, v \in BOOLEAN}

\* The room right after RoomHandle::new_with_client, with RPC peer r.
RoomStart(r) ==
    /\ rpc = r
    /\ is_muted = [k \in Kinds |-> FALSE]
    /\ is_busy = [k \in Kinds |-> FALSE]
    /\ waiters = [k \in Kinds |-> <<>>]
    /\ calls = [c \in CallIds |-> NoCall]
    /\ sent = <<>>
    /\ wire = <<>>
    /\ events = <<>>
    /\ nhandled = 0
    /\ ninputs = 0
    /\ session = "open"
    /\ timers = <<>>
    /\ srv_recv = <<>>
    /\ srv_sent = <<>>

\* ------------------------------------------------------------ data shapes
NoGuard == [state |-> "none", value_before_mutation |-> 0, nwrites |-> 0,
            interim |-> {}]

NoStream == [rx |-> "none", buf |-> <<>>, since |-> 0]

NoFut == [st |-> "none", assert_fn |-> {}, since |-> 0, registered |-> FALSE]

\* UniversalSubscriber::All(tx) / a bare mpsc::UnboundedSender.
AllEntry(id) == [kind |-> "All", id |-> id, sender |-> TRUE, assert_fn |-> {}]

\* UniversalSubscriber::When{sender, assert_fn} / SubscriberOnce{sender, assert_fn};
\* sender is TRUE for Some(tx) and FALSE for None.
WhenEntry(id, p) == [kind |-> "When", id |-> id, sender |-> TRUE, assert_fn |-> p]

\* Some entry of the storage holds the sending half of channel id.
HasSender(sb, id) == \E k \in 1..Len(sb) : sb[k].id = id /\ sb[k].sender

\* ------------------------------------------------------ channel primitives
\* mpsc::UnboundedSender::unbounded_send on an open channel: FIFO append.
UnboundedSend(buf, d) == Append(buf, d)

\* oneshot::Sender::send(()): the receiver, if still held and pending, gets Ok.
\* The Result of send is discarded by the caller.
OneshotSend(f) == IF f.st = "pending" THEN [f EXCEPT !.st = "ok"] ELSE f

\* Dropping a oneshot::Sender that was never used: a pending receiver gets
\* Canceled, which `?` converts to Dropped.
OneshotDropSender(f) == IF f.st = "pending" THEN [f EXCEPT !.st = "dropped"] ELSE f

\* Faulty variant: a channel that starts with the current value buffered.
ReplayingChannel(d, n) == [rx |-> "open", buf |-> <<d>>, since |-> n]

\* mpsc::unbounded(): a fresh channel, nothing buffered.  d is the cell's
\* value and n the number of notify passes so far (kept as history).
NewChannel(d, n) == [rx |-> "open", buf |-> <<>>, since |-> n]

\* ----------------------------------------------------------- on_modify
\* The result of a notify pass.
Pass(sb, st, fu, pn) == [subs |-> sb, streams |-> st, futs |-> fu, panicked |-> pn]

\* The iterator chain of on_modify of Vec<mpsc::UnboundedSender<T>>: senders
\* whose receiver is gone (is_closed) are skipped, every other one is sent a
\* clone; nothing is removed.
RECURSIVE SendAll(_, _, _)
SendAll(sb, st, d) ==
    IF sb = <<>> THEN st
    ELSE LET sub == Head(sb)
             st1 == IF st[sub.id].rx = "open"
                    THEN [st EXCEPT ![sub.id].buf = UnboundedSend(@, d)]
                    ELSE st
         IN SendAll(Tail(sb), st1, d)

\* Faulty variant: only the first sender is served.
OnModifyDefaultFirstOnly(sb, st, fu, d) ==
    Pass(sb, SendAll(IF sb = <<>> THEN sb ELSE <<Head(sb)>>, st, d), fu, FALSE)

\* on_modify of Vec<mpsc::UnboundedSender<T>>.
OnModifyDefault(sb, st, fu, d) == Pass(sb, SendAll(sb, st, d), fu, FALSE)

\* The closure given to retain for a one-shot entry; acc carries the entries
\* kept so far and the receiving ends.  A satisfied entry is sent () and the
\* closure returns true (kept, its sender now None); an unsatisfied one
\* returns false (removed, which drops its sender).  take().unwrap() on a
\* sender that is already None panics.
WhenArm(sub, d, acc) ==
    IF d \in sub.assert_fn
    THEN IF sub.sender
         THEN [acc EXCEPT !.kept = Append(@, [sub EXCEPT !.sender = FALSE]),
                          !.futs[sub.id] = OneshotSend(@)]
         ELSE [acc EXCEPT !.panicked = TRUE]
    ELSE [acc EXCEPT !.futs[sub.id] =
                         IF sub.sender THEN OneshotDropSender(@) ELSE @]

\* The closure given to retain for a streaming entry of the universal
\* storage: unbounded_send(..).unwrap() panics when the receiver is gone;
\* otherwise the value is sent and the closure returns false (removed).
AllArm(sub, d, acc) ==
    IF acc.streams[sub.id].rx = "open"
    THEN [acc EXCEPT !.streams[sub.id].buf = UnboundedSend(@, d)]
    ELSE [acc EXCEPT !.panicked = TRUE]

\* Vec::retain: the closure runs on the entries in order; a panic stops it.
RECURSIVE Retain(_, _, _)
Retain(sb, d, acc) ==
    IF sb = <<>> \/ acc.panicked THEN acc
    ELSE Retain(Tail(sb), d,
                IF Head(sb).kind = "When" THEN WhenArm(Head(sb), d, acc)
                ELSE AllArm(Head(sb), d, acc))

\* on_modify of Vec<UniversalSubscriber<T>> and of Vec<SubscriberOnce<T>>.
\* After a panic the program is over; the storage is left as it was.
OnModifyRetain(sb, st, fu, d) ==
    LET r == Retain(sb, d, [kept |-> <<>>, streams |-> st, futs |-> fu,
                            panicked |-> FALSE])
    IN Pass(IF r.panicked THEN sb ELSE r.kept, r.streams, r.futs, r.panicked)

OnModifyUniversal(sb, st, fu, d) == OnModifyRetain(sb, st, fu, d)

OnModifyOnce(sb, st, fu, d) == OnModifyRetain(sb, st, fu, d)

\* S::on_modify, dispatched on the storage type.
OnModify(sb, st, fu, d) ==
    CASE strategy = "Default" -> OnModifyDefault(sb, st, fu, d)
      [] strategy = "Once" -> OnModifyOnce(sb, st, fu, d)
      [] OTHER -> OnModifyUniversal(sb, st, fu, d)

\* ------------------------------------------------------------------ Init
Init ==
    /\ strategy \in Strategies
    /\ alive = TRUE
    /\ panicked = FALSE
    /\ data \in InitValues
    /\ subs = <<>>
    /\ guard = NoGuard
    /\ streams = [i \in Ids |-> NoStream]
    /\ futs = [i \in Ids |-> NoFut]
    /\ commits = <<>>
    /\ nextId = 1
    /\ RoomStart("mock")

\* The cell can be called: it exists, the program runs, no guard borrows it.
Callable == alive /\ ~panicked /\ guard.state # "active"

\* --------------------------------------------------------------- actions
\* Faulty variant: register-only, the current value is not looked at.
WhenRegisterOnly(p) ==
    /\ Callable
    /\ strategy \in {"Once", "Universal"}
    /\ nextId <= MaxSubs
    /\ futs' = [futs EXCEPT ![nextId] =
                   [st |-> "pending", assert_fn |-> p,
                    since |-> Len(commits), registered |-> TRUE]]
    /\ subs' = Append(subs, WhenEntry(nextId, p))
    /\ nextId' = nextId + 1
    /\ guard' = NoGuard
    /\ UNCHANGED <<roomVars, strategy, alive, panicked, data, streams, commits>>

\* ReactiveField::when(assert_fn) (when_eq(t) is when(EqTo(t))).
When(p) ==
    /\ Callable
    /\ strategy \in {"Once", "Universal"}
    /\ nextId <= MaxSubs
    /\ IF data \in p
       THEN /\ futs' = [futs EXCEPT ![nextId] =
                          [st |-> "ok", assert_fn |-> p, since |-> Len(commits),
                           registered |-> FALSE]]
            /\ subs' = subs
       ELSE /\ futs' = [futs EXCEPT ![nextId] =
                          [st |-> "pending", assert_fn |-> p,
                           since |-> Len(commits), registered |-> TRUE]]
            /\ subs' = Append(subs, WhenEntry(nextId, p))
    /\ nextId' = nextId + 1
    /\ guard' = NoGuard
    /\ UNCHANGED <<roomVars, strategy, alive, panicked, data, streams, commits>>

\* ReactiveField::subscribe().
Subscribe ==
    /\ Callable
    /\ strategy \in {"Default", "Universal"}
    /\ nextId <= MaxSubs
    /\ subs' = Append(subs, AllEntry(nextId))
    /\ streams' = [streams EXCEPT ![nextId] = NewChannel(data, Len(commits))]
    /\ nextId' = nextId + 1
    /\ guard' = NoGuard
    /\ UNCHANGED <<roomVars, strategy, alive, panicked, data, futs, commits>>

\* ReactiveField::borrow_mut(): the guard snapshots the value.
BorrowMut ==
    /\ Callable
    /\ Len(commits) < MaxCommits
    /\ guard' = [state |-> "active", value_before_mutation |-> data,
                 nwrites |-> 0, interim |-> {}]
    /\ UNCHANGED <<roomVars, strategy, alive, panicked, data, subs, streams, futs,
                   commits, nextId>>

\* Deref for ReactiveField: &self.data is handed out; no state changes.
DerefCell ==
    /\ Callable
    /\ UNCHANGED vars

\* Faulty variant: a read through the guard that notifies.
DerefGuardNotifying ==
    /\ guard.state = "active" /\ ~panicked
    /\ LET r == OnModify(subs, streams, futs, data)
       IN /\ subs' = r.subs
          /\ streams' = r.streams
          /\ futs' = r.futs
          /\ panicked' = r.panicked
    /\ UNCHANGED <<roomVars, strategy, alive, data, guard, commits, nextId>>

\* Deref for MutReactiveFieldGuard: &self.data is handed out; no state
\* changes.
DerefGuard ==
    /\ guard.state = "active" /\ ~panicked
    /\ UNCHANGED vars

\* Faulty variant: a write that notifies at once.
DerefMutWriteNotifying(v) ==
    /\ guard.state = "active" /\ ~panicked
    /\ guard.nwrites < MaxWrites
    /\ data' = v
    /\ guard' = [guard EXCEPT !.nwrites = @ + 1,
                              !.interim = IF guard.nwrites > 0
                                          THEN @ \cup {data} ELSE @]
    /\ LET r == OnModify(subs, streams, futs, v)
       IN /\ subs' = r.subs
          /\ streams' = r.streams
          /\ futs' = r.futs
          /\ panicked' = r.panicked
    /\ UNCHANGED <<roomVars, strategy, alive, commits, nextId>>

\* A write through DerefMut of the guard: only the value changes.  nwrites
\* and interim are history: the number of writes of the scope and the values
\* it wrote and then overwrote.
DerefMutWrite(v) ==
    /\ guard.state = "active" /\ ~panicked
    /\ guard.nwrites < MaxWrites
    /\ data' = v
    /\ guard' = [guard EXCEPT !.nwrites = @ + 1,
                              !.interim = IF guard.nwrites > 0
                                          THEN @ \cup {data} ELSE @]
    /\ UNCHANGED <<roomVars, strategy, alive, panicked, subs, streams, futs, commits,
                   nextId>>

\* Faulty variant: a guard that notifies on every release.
AlwaysChanged(g, d) == TRUE

\* The comparison in Drop for MutReactiveFieldGuard.
ValueChanged(g, d) == d # g.value_before_mutation

\* Drop for MutReactiveFieldGuard: notify if and only if the value differs
\* from the snapshot.  The released guard is kept as history (with the
\* values it held only in the middle of the scope) until the cell is called
\* again.
DropGuard ==
    /\ guard.state = "active" /\ ~panicked
    /\ guard' = [guard EXCEPT !.state = "released",
                              !.interim = @ \ {data, guard.value_before_mutation}]
    /\ IF ValueChanged(guard, data)
       THEN LET r == OnModify(subs, streams, futs, data)
            IN /\ subs' = r.subs
               /\ streams' = r.streams
               /\ futs' = r.futs
               /\ panicked' = r.panicked
               /\ commits' = Append(commits, data)
       ELSE UNCHANGED <<subs, streams, futs, panicked, commits>>
    /\ UNCHANGED <<roomVars, strategy, alive, data, nextId>>

\* The caller drops the stream returned by subscribe().  Execution is
\* single-threaded and a guard scope is straight-line code, so the callers'
\* own steps are taken between scopes.
DropStream(i) ==
    /\ ~panicked /\ guard.state # "active"
    /\ streams[i].rx = "open"
    /\ streams' = [streams EXCEPT ![i].rx = "closed"]
    /\ UNCHANGED <<roomVars, strategy, alive, panicked, data, subs, guard, futs,
                   commits, nextId>>

\* The caller drops a pending future returned by when().
DropFuture(i) ==
    /\ ~panicked /\ guard.state # "active"
    /\ futs[i].st = "pending"
    /\ futs' = [futs EXCEPT ![i].st = "cancelled"]
    /\ UNCHANGED <<roomVars, strategy, alive, panicked, data, subs, guard, streams,
                   commits, nextId>>

\* Faulty variant: the senders are leaked, no receiver is told.
LeakSenders(sb, fu) == fu

\* Dropping the storage drops every sender still in it.

RECURSIVE DropSenders(_, _)
DropSenders(sb, fu) ==
    IF sb = <<>> THEN fu
    ELSE DropSenders(Tail(sb),
                     IF Head(sb).kind = "When" /\ Head(sb).sender
                     THEN [fu EXCEPT ![Head(sb).id] = OneshotDropSender(@)]
                     ELSE fu)

\* The ReactiveField itself is dropped (no guard can be live: it borrows it).
DropCell ==
    /\ Callable
    /\ alive' = FALSE
    /\ futs' = DropSenders(subs, futs)
    /\ subs' = <<>>
    /\ guard' = NoGuard
    /\ UNCHANGED <<roomVars, strategy, panicked, data, streams, commits, nextId>>

Next ==
    \/ \E p \in Preds : When(p)
    \/ Subscribe
    \/ BorrowMut
    \/ DerefCell
    \/ DerefGuard
    \/ \E v \in Values : DerefMutWrite(v)
    \/ DropGuard
    \/ \E i \in Ids : DropStream(i)
    \/ \E i \in Ids : DropFuture(i)
    \/ DropCell

Spec == Init /\ [][Next]_vars

\* ------------------------------------------------------- room: operators
\* PeerConnection::filter_tracks_by_kind(_mut): the tracks the flags select.
FilterTracksByKind(audio, video) ==
    {k \in Kinds : (k = "Audio" /\ audio) \/ (k = "Video" /\ video)}

\* PeerConnection::is_busy: no selected track is not busy.
PeerIsBusy(b, audio, video) ==
    Cardinality({k \in FilterTracksByKind(audio, video) : ~b[k]}) = 0

\* PeerConnection::is_muted: no selected track is not muted.
PeerIsMuted(m, audio, video) ==
    Cardinality({k \in FilterTracksByKind(audio, video) : ~m[k]}) = 0

\* Room::is_busy: some peer is busy.
RoomIsBusy(b, audio, video) ==
    Cardinality({p \in Peers : PeerIsBusy(b, audio, video)}) # 0

\* PeerConnection::on_mute / on_unmute: the tracks Sender::on_mute
\* (when_eq(true)) / Sender::on_unmute (when_eq(false)) is called on.
PeerOnMute(m, audio, video) ==
    {k \in FilterTracksByKind(audio, video) : ~m[k]}

PeerOnUnmute(m, audio, video) ==
    {k \in FilterTracksByKind(audio, video) : m[k]}

\* Faulty variant: the two flags are taken in the other order.
PeerMuteSwapped(m, audio, video) ==
    {k \in FilterTracksByKind(video, audio) : ~m[k]}

\* PeerConnection::mute / unmute: the tracks Sender::mute / Sender::unmute
\* is applied to.
PeerMute(m, audio, video) ==
    {k \in FilterTracksByKind(audio, video) : ~m[k]}

\* Faulty variant: the flags are ignored, every muted track is unmuted.
PeerUnmuteAll(m, audio, video) == {k \in Kinds : m[k]}

PeerUnmute(m, audio, video) ==
    {k \in FilterTracksByKind(audio, video) : m[k]}

\* Faulty variant: the command is sent whenever the room is not busy.
ShouldSendIgnoringLen(is_room_busy, len) == ~is_room_busy

\* The condition of inner_mute / inner_unmute under which the command is
\* sent: !is_room_busy && on_mute_fut.len() > 0.
ShouldSend(is_room_busy, len) == ~is_room_busy /\ len > 0

\* when_eq(should_be) of call c on a track's cell whose value differs from
\* should_be: one entry is appended to the cell's storage.
WhenEqRegister(ws, c, should_be) ==
    Append(ws, [call |-> c, should_be |-> should_be])

\* The notify pass of a track's cell after its value became v: the calls
\* whose entry is resolved, and the entries that stay.
WhenEqResolved(ws, v) ==
    {ws[i].call : i \in {j \in 1..Len(ws) : ws[j].should_be = v}}

WhenEqKept(ws, v) == SelectSeq(ws, LAMBDA w : w.should_be # v)

\* RpcClient::send: the command is recorded and, with a WebSocket behind
\* the client, is on its way to the server.
WsSend(cmd) ==
    /\ sent' = Append(sent, cmd)
    /\ wire' = IF rpc = "mock" THEN wire ELSE Append(wire, cmd)

\* --------------------------------------------------------- room: actions
\* The first poll of RoomHandle::inner_mute(audio, video) as call c: up to
\* the await, and through it if there is nothing to wait for.
InnerMute(c, audio, video) ==
    /\ calls[c].st = "none"
    /\ \A d \in CallIds : d < c => calls[d].st # "none"
    /\ LET is_room_busy == RoomIsBusy(is_busy, audio, video)
           len == Cardinality({p \in Peers : ~PeerIsMuted(is_muted, audio, video)})
           ws == IF len > 0 THEN PeerOnMute(is_muted, audio, video) ELSE {}
       IN /\ waiters' = [k \in Kinds |->
                            IF k \in ws THEN WhenEqRegister(waiters[k], c, TRUE)
                                        ELSE waiters[k]]
          /\ IF ShouldSend(is_room_busy, len)
                THEN WsSend(MuteRoom(audio, video))
                ELSE UNCHANGED <<sent, wire>>
          /\ calls' = [calls EXCEPT ![c] =
                          [op |-> "mute", audio |-> audio, video |-> video,
                           st |-> IF ws = {} THEN "ok" ELSE "waiting",
                           waits |-> ws, registered |-> ws]]
    /\ UNCHANGED <<cellVars, rpc, is_muted, is_busy, events, nhandled, ninputs,
                   session, timers, srv_recv, srv_sent>>

\* The first poll of RoomHandle::inner_unmute(audio, video) as call c.
InnerUnmute(c, audio, video) ==
    /\ calls[c].st = "none"
    /\ \A d \in CallIds : d < c => calls[d].st # "none"
    /\ LET is_room_busy == RoomIsBusy(is_busy, audio, video)
           len == Cardinality({p \in Peers : PeerIsMuted(is_muted, audio, video)})
           ws == IF len > 0 THEN PeerOnUnmute(is_muted, audio, video) ELSE {}
       IN /\ waiters' = [k \in Kinds |->
                            IF k \in ws THEN WhenEqRegister(waiters[k], c, FALSE)
                                        ELSE waiters[k]]
          /\ IF ShouldSend(is_room_busy, len)
                THEN WsSend(UnmuteRoom(audio, video))
                ELSE UNCHANGED <<sent, wire>>
          /\ calls' = [calls EXCEPT ![c] =
                          [op |-> "unmute", audio |-> audio, video |-> video,
                           st |-> IF ws = {} THEN "ok" ELSE "waiting",
                           waits |-> ws, registered |-> ws]]
    /\ UNCHANGED <<cellVars, rpc, is_muted, is_busy, events, nhandled, ninputs,
                   session, timers, srv_recv, srv_sent>>

\* The event loop spawned by new_with_client takes the next event and runs
\* Room::handle_event on it: the touched tracks' cells change value and
\* notify their waiters.
HandleEvent ==
    /\ events # <<>>
    /\ LET e == Head(events)
           v == (e.event = "RoomMuted")
           touched == IF v THEN PeerMute(is_muted, e.audio, e.video)
                           ELSE PeerUnmute(is_muted, e.audio, e.video)
       IN /\ is_muted' = [k \in Kinds |-> IF k \in touched THEN v ELSE is_muted[k]]
          /\ waiters' = [k \in Kinds |->
                            IF k \in touched THEN WhenEqKept(waiters[k], v)
                                             ELSE waiters[k]]
          /\ calls' = [c \in CallIds |->
                          IF calls[c].st = "waiting"
                             THEN [calls[c] EXCEPT !.waits =
                                      @ \ {k \in touched :
                                              c \in WhenEqResolved(waiters[k], v)}]
                             ELSE calls[c]]
    /\ events' = Tail(events)
    /\ nhandled' = nhandled + 1
    /\ UNCHANGED <<cellVars, rpc, is_busy, sent, wire, ninputs, session, timers,
                   srv_recv, srv_sent>>

\* future_with_timeout, Either::Left: join_all of the call's waiters is
\* ready when the call is polled.
Complete(c) ==
    /\ calls[c].st = "waiting"
    /\ calls[c].waits = {}
    /\ calls' = [calls EXCEPT ![c].st = "ok"]
    /\ UNCHANGED <<cellVars, rpc, is_muted, is_busy, waiters, sent, wire, events,
                   nhandled, ninputs, session, timers, srv_recv, srv_sent>>

\* Faulty variant: the timeout wins whether or not join_all is ready.
TimeoutFiresFirst(c) ==
    /\ calls[c].st = "waiting"
    /\ calls' = [calls EXCEPT ![c].st = "err"]
    /\ UNCHANGED <<cellVars, rpc, is_muted, is_busy, waiters, sent, wire, events,
                   nhandled, ninputs, session, timers, srv_recv, srv_sent>>

\* future_with_timeout, Either::Right: resolve_after(PROMISE_TIMEOUT) is
\* ready and join_all is not.
TimeoutFires(c) ==
    /\ calls[c].st = "waiting"
    /\ calls[c].waits # {}
    /\ calls' = [calls EXCEPT ![c].st = "err"]
    /\ UNCHANGED <<cellVars, rpc, is_muted, is_busy, waiters, sent, wire, events,
                   nhandled, ninputs, session, timers, srv_recv, srv_sent>>

\* The mocked on_message stream yields an event of the client's protocol.
MockEvent(e) ==
    /\ rpc = "mock"
    /\ ninputs < MaxInputs
    /\ ninputs' = ninputs + 1
    /\ events' = Append(events, e)
    /\ UNCHANGED <<cellVars, rpc, is_muted, is_busy, waiters, calls, sent, wire,
                   nhandled, session, timers, srv_recv, srv_sent>>

\* WsSession::handle on ws::Message::Text.  The server's protocol crate has
\* MuteRoom only: any other command fails from_str(..).unwrap().  The
\* server replies through run_later(3 s), the demo-server at once.
ServerHandleText ==
    /\ rpc # "mock"
    /\ session = "open"
    /\ wire # <<>>
    /\ wire' = Tail(wire)
    /\ LET msg == Head(wire)
           reply == RoomMuted(msg.audio, msg.video)
       IN IF msg.cmd = "MuteRoom"
             THEN /\ srv_recv' = Append(srv_recv, msg)
                  /\ IF rpc = "server"
                        THEN /\ timers' = Append(timers, reply)
                             /\ UNCHANGED <<srv_sent, events>>
                        ELSE /\ srv_sent' = Append(srv_sent, reply)
                             /\ events' = Append(events, reply)
                             /\ UNCHANGED timers
                  /\ UNCHANGED session
             ELSE /\ session' = "panicked"
                  /\ timers' = <<>>
                  /\ UNCHANGED <<srv_recv, srv_sent, events>>
    /\ UNCHANGED <<cellVars, rpc, is_muted, is_busy, waiters, calls, sent,
                   nhandled, ninputs>>

\* WsSession::handle on a frame that is not Text: the server only logs a
\* Close (the connection then ends and the actor stops); every other frame,
\* and on the demo-server Close too, reaches unimplemented!().
ServerHandleFrame(frame) ==
    /\ rpc # "mock"
    /\ session = "open"
    /\ ninputs < MaxInputs
    /\ ninputs' = ninputs + 1
    /\ session' = IF frame = "Close" /\ rpc = "server" THEN "closed" ELSE "panicked"
    /\ timers' = <<>>
    /\ UNCHANGED <<cellVars, rpc, is_muted, is_busy, waiters, calls, sent, wire,
                   events, nhandled, srv_recv, srv_sent>>

\* The closure given to run_later runs: the reply is sent on the session.
TimerFires ==
    /\ session = "open"
    /\ timers # <<>>
    /\ timers' = Tail(timers)
    /\ srv_sent' = Append(srv_sent, Head(timers))
    /\ events' = Append(events, Head(timers))
    /\ UNCHANGED <<cellVars, rpc, is_muted, is_busy, waiters, calls, sent, wire,
                   nhandled, ninputs, session, srv_recv>>

RoomNext ==
    \/ \E c \in CallIds, audio, video \in BOOLEAN : InnerMute(c, audio, video)
    \/ \E c \in CallIds, audio, video \in BOOLEAN : InnerUnmute(c, audio, video)
    \/ HandleEvent
    \/ \E c \in CallIds : Complete(c)
    \/ \E c \in CallIds : TimeoutFires(c)
    \/ \E e \in EventsOfProto : MockEvent(e)
    \/ ServerHandleText
    \/ \E frame \in {"Close", "Binary"} : ServerHandleFrame(frame)
    \/ TimerFires

\* The room runs; the reactive cell of the first part is left as built.
RoomInit ==
    /\ strategy = "Default"
    /\ alive = TRUE
    /\ panicked = FALSE
    /\ data = 0
    /\ subs = <<>>
    /\ guard = NoGuard
    /\ streams = [i \in Ids |-> NoStream]
    /\ futs = [i \in Ids |-> NoFut]
    /\ commits = <<>>
    /\ nextId = 1
    /\ \E r \in Rpcs : RoomStart(r)

RoomSpec == RoomInit /\ [][RoomNext]_vars

\* The room under its scheduling: the timer set by resolve_after always
\* fires and wakes the call, and the single-threaded executor polls every
\* woken call, so a suspended call is polled again.
RoomFairSpec ==
    RoomSpec /\ \A c \in CallIds : WF_vars(Complete(c) \/ TimeoutFires(c))

\* ---------------------------------------------------------------- history
\* The values committed after the first n notify passes.
CommitsSince(n) == SubSeq(commits, n + 1, Len(commits))

\* Some value committed since f was registered satisfies f's assert_fn.
Hit(f) ==
    \E k \in 1..Len(CommitsSince(f.since)) : CommitsSince(f.since)[k] \in f.assert_fn

IsPrefix(s, t) == Len(s) <= Len(t) /\ s = SubSeq(t, 1, Len(s))

\* A step that releases the guard.
Releasing == guard.state = "active" /\ guard'.state = "released"

\* ------------------------------------------------------------------ claims

\* C1: a guard scope that ends with the value equal to the snapshot taken at
\* guard creation does not invoke on_modify: the release leaves the storage,
\* every stream, every one-shot future and the notify history unchanged.
C1_NoOpScopeDoesNotNotify ==
    [][(Releasing /\ data = guard.value_before_mutation)
         => /\ subs' = subs
            /\ streams' = streams
            /\ futs' = futs
            /\ commits' = commits
            /\ panicked' = panicked]_vars

\* A scope that changed the value and restored it has been released on a
\* universal cell holding a live streaming subscriber (nothing received) and
\* a pending one-shot waiter.
C1_Witness ==
    /\ strategy = "Universal"
    /\ guard.state = "released"
    /\ guard.interim # {}
    /\ data = guard.value_before_mutation
    /\ \E i, j \in Ids :
          /\ streams[i].rx = "open" /\ streams[i].buf = <<>> /\ HasSender(subs, i)
          /\ futs[j].st = "pending" /\ HasSender(subs, j)

\* C2: on the streaming-only storage an open stream holds exactly the values
\* committed by the changed guard scopes since it was registered, one per
\* scope, in commit order.
C2_DefaultStreamGetsEveryChange ==
    strategy = "Default" =>
        \A i \in Ids :
            streams[i].rx = "open" =>
                streams[i].buf = CommitsSince(streams[i].since)

\* A cell incremented in three guard scopes has delivered [2, 3, 4] to a
\* stream registered before them.
C2_Witness ==
    /\ strategy = "Default"
    /\ \E i \in Ids :
          /\ streams[i].rx = "open"
          /\ streams[i].since = 0
          /\ streams[i].buf = <<2, 3, 4>>
    /\ guard.state = "released" /\ guard.value_before_mutation = 3

\* C3: on the universal storage a streaming entry whose receiver is attached
\* is delivered every changed value and stays in storage: an open stream
\* holds every value committed since it was registered and its sender is
\* still stored.
C3_UniversalStreamGetsEveryChange ==
    (strategy = "Universal" /\ alive /\ ~panicked) =>
        \A i \in Ids :
            streams[i].rx = "open" =>
                /\ streams[i].buf = CommitsSince(streams[i].since)
                /\ HasSender(subs, i)

\* C4: a registered when_eq(target) future is resolved Ok exactly when the
\* target has been committed since its registration, is otherwise pending
\* while the cell is alive, and once resolved has no entry in storage.
C4_WhenEqResolvesOnceAtFirstMatch ==
    (alive /\ ~panicked) =>
        \A i \in Ids :
            (/\ futs[i].registered
             /\ futs[i].st # "cancelled"
             /\ \E t \in Targets : futs[i].assert_fn = EqTo(t)) =>
                /\ futs[i].st \in {"pending", "ok"}
                /\ (futs[i].st = "ok") <=> Hit(futs[i])
                /\ futs[i].st = "ok" => ~\E k \in 1..Len(subs) : subs[k].id = i

\* C5: a guard release that makes the value equal to the target resolves
\* with Ok every when_eq(target) future that was registered before any
\* mutation and is still held by its caller.
C5_AllWaitersResolveOnOneMutation ==
    [][(Releasing /\ data # guard.value_before_mutation)
         => \A i \in Ids :
               (/\ futs[i].registered
                /\ futs[i].since = 0
                /\ futs[i].st # "cancelled"
                /\ futs[i].assert_fn = EqTo(data)) => futs'[i].st = "ok"]_vars

\* C6: a changed guard release on a storage holding a streaming entry whose
\* receiver was dropped (and no one-shot entry that was already resolved)
\* does not panic and delivers the value to every other live stream.
C6_DroppedStreamIsSilent ==
    [][(/\ Releasing
        /\ data # guard.value_before_mutation
        /\ \E k \in 1..Len(subs) :
              subs[k].kind = "All" /\ streams[subs[k].id].rx = "closed"
        /\ \A k \in 1..Len(subs) : subs[k].sender)
         => /\ ~panicked'
            /\ \A k \in 1..Len(subs) :
                  (subs[k].kind = "All" /\ streams[subs[k].id].rx = "open") =>
                      streams'[subs[k].id].buf =
                          Append(streams[subs[k].id].buf, data)]_vars

\* C7: when the cell is destroyed every pending one-shot future completes
\* with Err(Dropped) and every future already resolved keeps Ok; a registered
\* future is Ok only if its predicate held at some guard release.
C7_DroppedOnTeardown ==
    /\ [][(alive /\ ~alive')
            => \A i \in Ids :
                  /\ futs[i].st = "pending" => futs'[i].st = "dropped"
                  /\ futs[i].st = "ok" => futs'[i].st = "ok"]_vars
    /\ [](\A i \in Ids :
             (futs[i].st = "ok" /\ futs[i].registered) => Hit(futs[i]))
    /\ [](~alive => \A i \in Ids : futs[i].st # "pending")

\* The cell was destroyed holding a waiter no release had been evaluated
\* against (it got Dropped) after another waiter had been resolved (Ok).
C7_Witness ==
    /\ ~alive
    /\ \E i, j \in Ids :
          /\ futs[i].st = "dropped"
          /\ futs[i].since = Len(commits)
          /\ futs[j].st = "ok" /\ futs[j].registered

\* C8: while the cell is alive and the receiver is kept, the stream has not
\* ended: the sending half of its channel is still in storage.
C8_StreamEndsOnlyOnDrop ==
    \A i \in Ids :
        (alive /\ ~panicked /\ streams[i].rx = "open") => HasSender(subs, i)

\* C9: a write inside a guard scope notifies nobody; the release performs at
\* most one notify pass, with the final value: every stream gets nothing or
\* exactly the final value, and a one-shot future turns Ok only if its
\* predicate holds for the final value.
C9_BatchedNoInterim ==
    [][/\ (guard.state = "active" /\ guard'.state = "active")
            => UNCHANGED <<subs, streams, futs, commits, panicked>>
       /\ Releasing
            => /\ data' = data
               /\ commits' \in {commits, Append(commits, data)}
               /\ \A i \in Ids :
                     /\ streams'[i].buf \in
                            {streams[i].buf, Append(streams[i].buf, data)}
                     /\ (futs[i].st # "ok" /\ futs'[i].st = "ok")
                            => data \in futs[i].assert_fn]_vars

\* A scope that held an interim value and ended on another one has been
\* released: the stream got the final value only, and the waiter whose
\* predicate holds for the interim value and not for the final one is not Ok.
C9_Witness ==
    /\ guard.state = "released"
    /\ guard.interim # {}
    /\ data # guard.value_before_mutation
    /\ \E i, j \in Ids :
          /\ streams[i].rx = "open" /\ streams[i].buf = <<data>>
          /\ futs[j].registered
          /\ futs[j].assert_fn \cap guard.interim # {}
          /\ data \notin futs[j].assert_fn
          /\ futs[j].st \in {"pending", "dropped"}

\* C10: a stream holds only values committed after its subscribe call: its
\* buffer is a prefix of the values committed since then (so it is empty at
\* subscription, whatever the cell's value and past).
C10_NoReplay ==
    \A i \in Ids :
        streams[i].rx # "none" =>
            IsPrefix(streams[i].buf, CommitsSince(streams[i].since))

\* A first subscription was dropped, the cell was mutated, and a second
\* subscription made afterwards holds only the value committed after it.
C10_Witness ==
    \E i, j \in Ids :
        /\ streams[i].rx = "closed"
        /\ streams[j].rx = "open"
        /\ streams[j].since > 0
        /\ Len(commits) = streams[j].since + 1
        /\ streams[j].buf = <<commits[Len(commits)]>>

\* C11: read-only access never notifies: creating a guard, reading through
\* it, and releasing a guard that was only read leave the value, the
\* storage, every stream and every one-shot future unchanged.
C11_ReadOnlyNeverNotifies ==
    [][(\/ guard.state # "active" /\ guard'.state = "active"
        \/ guard.state = "active" /\ guard' = guard
        \/ Releasing /\ guard.nwrites = 0)
         => UNCHANGED <<data, subs, streams, futs, commits, panicked>>]_vars

\* A guard that was never written through has been released on a universal
\* cell holding a live stream (nothing received) and a pending waiter.
C11_Witness ==
    /\ strategy = "Universal"
    /\ guard.state = "released"
    /\ guard.nwrites = 0
    /\ \E i, j \in Ids :
          /\ streams[i].rx = "open" /\ streams[i].buf = <<>> /\ HasSender(subs, i)
          /\ futs[j].st = "pending" /\ HasSender(subs, j)

\* A notify pass with value d over storage sb reaches a one-shot entry that
\* is satisfied and whose sender was already taken.
TakeOnNone(sb, st, d) ==
    \E k \in 1..Len(sb) :
        /\ sb[k].kind = "When" /\ ~sb[k].sender /\ d \in sb[k].assert_fn
        /\ \A j \in 1..(k - 1) :
              ~(sb[j].kind = "All" /\ st[sb[j].id].rx # "open")

\* A step that releases the guard with a changed value: a notify pass.
Notifying == Releasing /\ data # guard.value_before_mutation

\* C16: while the cell is alive a registered one-shot future (any predicate)
\* never completes with Err(Dropped); it is Ok exactly if a value committed
\* since its registration satisfies its predicate, and until then its entry
\* stays in storage with its sender.
C16_UnsatisfiedWaiterRetained ==
    (alive /\ ~panicked) =>
        \A i \in Ids :
            (futs[i].registered /\ futs[i].st # "cancelled") =>
                /\ futs[i].st # "dropped"
                /\ (futs[i].st = "ok") <=> Hit(futs[i])
                /\ ~Hit(futs[i]) => HasSender(subs, i)

\* C17: no notify pass runs take().unwrap() on a one-shot entry whose sender
\* was already taken.
C17_NoTakeOfTakenSender ==
    [][Notifying => ~(TakeOnNone(subs, streams, data) /\ panicked')]_vars

\* C18: after every notify pass the storage holds no one-shot entry that was
\* resolved and no streaming entry whose receiver is detached, and the kept
\* entries are in registration order.
C18_StoragePruned ==
    [][(Notifying /\ ~panicked')
         => /\ \A k \in 1..Len(subs') :
                  /\ subs'[k].sender
                  /\ subs'[k].kind = "All" => streams'[subs'[k].id].rx = "open"
            /\ \A k \in 1..(Len(subs') - 1) : subs'[k].id < subs'[k + 1].id]_vars

C20_CancelledWaiterIsSilent ==
    [][(/\ Notifying
        /\ \E k \in 1..Len(subs) :
              /\ subs[k].kind = "When" /\ subs[k].sender
              /\ futs[subs[k].id].st = "cancelled"
              /\ data \in subs[k].assert_fn)
         => /\ ~panicked'
            /\ \A k \in 1..Len(subs) :
                  /\ (/\ subs[k].kind = "When"
                      /\ futs[subs[k].id].st = "pending"
                      /\ data \in subs[k].assert_fn)
                        => futs'[subs[k].id].st = "ok"
                  /\ (subs[k].kind = "All" /\ streams[subs[k].id].rx = "open")
                        => streams'[subs[k].id].buf =
                               Append(streams[subs[k].id].buf, data)]_vars

\* The reply the server owes for each received command, in order.
Replies(s) == [i \in 1..Len(s) |-> RoomMuted(s[i].audio, s[i].video)]

\* C12: before any event has been handled, however many times
\* inner_mute(true, true) was called, MuteRoom{audio: true, video: true} was
\* handed to the RPC client at most once.
C12_MuteRoomSentOnce ==
    nhandled = 0 =>
        Cardinality({i \in 1..Len(sent) : sent[i] = MuteRoom(TRUE, TRUE)}) <= 1

\* C13: when a RoomMuted event covering the kinds of a pending inner_mute
\* call is handled, that call has no waiter left after this single step; and
\* a pending call with no waiter left waits for nothing more: it stays so
\* until it completes, and it completes with Ok, never by its timeout.
C13_AllPendingCompleteOnOneEvent ==
    [][\A c \in CallIds :
          /\ (/\ nhandled' = nhandled + 1
              /\ calls[c].st = "waiting" /\ calls[c].op = "mute"
              /\ Head(events).event = "RoomMuted"
              /\ calls[c].audio => Head(events).audio
              /\ calls[c].video => Head(events).video)
                => calls'[c].st = "waiting" /\ calls'[c].waits = {}
          /\ (calls[c].st = "waiting" /\ calls[c].waits = {})
                => calls'[c].waits = {} /\ calls'[c].st \in {"waiting", "ok"}]_vars

\* Two inner_mute calls that both registered waiters have both completed
\* with Ok, and only one event was handled.
C13_Witness ==
    /\ nhandled = 1
    /\ \E c, d \in CallIds :
          /\ c # d
          /\ calls[c].op = "mute" /\ calls[c].registered # {} /\ calls[c].st = "ok"
          /\ calls[d].op = "mute" /\ calls[d].registered # {} /\ calls[d].st = "ok"

\* C14: an inner_unmute call made while no requested track is muted, and an
\* inner_mute call made while every requested track is muted, hands no
\* command to the RPC client, registers no waiter and is Ok when its first
\* poll returns.
C14_MatchingRequestIsNoOp ==
    [][\A c \in CallIds :
          (calls[c].st = "none" /\ calls'[c].st # "none")
            => LET r == calls'[c]
                   sel == FilterTracksByKind(r.audio, r.video)
               IN (\/ r.op = "unmute" /\ \A k \in sel : ~is_muted[k]
                   \/ r.op = "mute" /\ \A k \in sel : is_muted[k])
                     => /\ sent' = sent /\ wire' = wire
                        /\ waiters' = waiters
                        /\ r.st = "ok"]_vars

\* inner_unmute(true, true) was Ok at once on the unmuted room and
\* inner_mute(true, true) was Ok at once on the muted room; nothing was sent.
C14_Witness ==
    /\ sent = <<>>
    /\ \E c, d \in CallIds :
          /\ calls[c].op = "unmute" /\ calls[c].audio /\ calls[c].video
          /\ calls[c].st = "ok"
          /\ calls[d].op = "mute" /\ calls[d].audio /\ calls[d].video
          /\ calls[d].st = "ok" /\ calls[d].registered = {}

\* C15: the events the server has sent are, in order, the replies to the
\* MuteRoom commands it received (one each, same flags, nothing else), and
\* as long as the session was not closed by the client every received
\* command is answered or its reply is still scheduled.
C15_ServerReplyProtocol ==
    /\ IsPrefix(srv_sent, Replies(srv_recv))
    /\ session # "closed" => Len(srv_sent) + Len(timers) = Len(srv_recv)

\* C21: at the step in which an inner_mute(audio, video) call returns Ok
\* every track of the requested kinds is muted, and at the step in which an
\* inner_unmute call returns Ok every track of the requested kinds is
\* unmuted.
C21_OkMeansMuted ==
    [][\A c \in CallIds :
          (calls[c].st # "ok" /\ calls'[c].st = "ok")
            => \A k \in FilterTracksByKind(calls'[c].audio, calls'[c].video) :
                  is_muted'[k] = (calls'[c].op = "mute")]_vars

\* C22: a call that registered a waiter returns Err only by its timeout
\* firing while some waiter of it is unresolved, and returns Ok only with
\* all its waiters resolved; its result is final; and every suspended call
\* returns, whether or not the awaited event is ever handled.
C22_TimeoutOutcome ==
    /\ [][\A c \in CallIds :
             /\ (calls[c].st = "waiting" /\ calls'[c].st = "err")
                   => calls[c].waits # {}
             /\ (calls[c].st = "waiting" /\ calls'[c].st = "ok")
                   => calls[c].waits = {}
             /\ calls'[c].st = "err"
                   => calls[c].st \in {"waiting", "err"} /\ calls'[c].registered # {}
             /\ calls[c].st \in {"ok", "err"} => calls'[c] = calls[c]]_vars
    /\ \A c \in CallIds :
          (calls[c].st = "waiting") ~> (calls[c].st \in {"ok", "err"})

\* One call that registered waiters has returned Err with a waiter still
\* unresolved, another has returned Ok after the awaited event was handled.
C22_Witness ==
    \E c, d \in CallIds :
        /\ calls[c].registered # {} /\ calls[c].st = "err" /\ calls[c].waits # {}
        /\ calls[d].registered # {} /\ calls[d].st = "ok" /\ calls[d].waits = {}

\* C23: handling RoomMuted{audio, video} leaves is_muted true on exactly
\* the tracks the flags select and as it was on every other track, and
\* RoomUnmuted likewise with false; the busy flags and the waiters of the
\* other tracks are left alone; and handling an event whose selected tracks
\* are already in its state (as when the same event is handled a second
\* time) changes no track, resolves no waiter and sends nothing.
C23_EventTouchesOnlySelected ==
    [][(nhandled' = nhandled + 1)
         => LET e == Head(events)
                v == (e.event = "RoomMuted")
                sel == FilterTracksByKind(e.audio, e.video)
            IN /\ is_muted' = [k \in Kinds |-> IF k \in sel THEN v ELSE is_muted[k]]
               /\ is_busy' = is_busy
               /\ \A k \in Kinds \ sel : waiters'[k] = waiters[k]
               /\ (\A k \in sel : is_muted[k] = v)
                     => /\ is_muted' = is_muted
                        /\ waiters' = waiters
                        /\ calls' = calls
                        /\ sent' = sent]_vars

\* The server has answered two MuteRoom{audio} commands with the same
\* event, and the room has handled both: Audio is muted, Video is not.
C23_Witness ==
    /\ rpc = "server"
    /\ srv_sent = <<RoomMuted(TRUE, FALSE), RoomMuted(TRUE, FALSE)>>
    /\ nhandled = 2
    /\ events = <<>>
    /\ is_muted = [k \in Kinds |-> k = "Audio"]

====
